---- MODULE Spec2Model ----
(***************************************************************************)
(* State-machine model of nuke-slack.py: the rate-limit-aware API caller,  *)
(* the conversation enumerator, the per-conversation message purger, the   *)
(* completion cache file and the orchestrating main().                     *)
(*                                                                         *)
(* The Slack server is the environment: every response (rate-limited or    *)
(* not, ok or not, the page content, the next cursor) is an input chosen   *)
(* with \E from a small set.  The process can be killed externally at any  *)
(* program position and started again; the cache file survives, the        *)
(* process memory does not.                                                *)
(***************************************************************************)
EXTENDS Integers, Sequences, FiniteSets, TLC

(* ---- program constants (nuke-slack.py:7-8) ---- *)
INITIAL_RETRY_DELAY == 2
MAX_RETRY_DELAY == 300

(* ---- bounds of the model ---- *)
MaxListed == 2     \* conversations accumulated by one enumeration
MaxMsgs == 1       \* messages the server returns to one purge pass, over all its pages
MaxRateLimited == 1  \* rate-limited responses the server gives in one run
MaxRuns == 2       \* process invocations in one behaviour
MaxBackoff == 9    \* rate-limited responses the server gives in a run of the caller alone

(* ---- value domains ---- *)
Channels == {"C1", "C2"}
Me == "U_ME"
Other == "U_OTHER"
NoUser == "none"            \* None / missing user_id
NoSubtype == "none"         \* missing or empty subtype
NoCursor == "none"          \* None or "" (both falsy in the code)
Cursors == {"X"}
NoFile == [state |-> "absent", ids |-> {}]        \* the cache file does not exist
Truncated == [state |-> "truncated", ids |-> {}]  \* opened with "w", not yet written
FileOf(ids) == [state |-> "written", ids |-> ids] \* a complete JSON list of IDs
NoChannel == "none"

Users == {Me, Other}
Subtypes == {NoSubtype, "channel_join"}
Msgs == [user : Users, subtype : Subtypes]

Min(a, b) == IF a < b THEN a ELSE b

Range(s) == {s[k] : k \in DOMAIN s}

SeqsUpTo(S, n) == UNION {[1..k -> S] : k \in 0..n}

(* ---- slack_api_call: the two branches' effect on the shared delay ---- *)
\* line 62: current_retry_delay = min(current_retry_delay * 2, MAX_RETRY_DELAY)
RateLimitDelay(d) == Min(d * 2, MAX_RETRY_DELAY)

\* halving without the test of line 67
SuccessDelayAlwaysHalves(d) == d \div 2

\* lines 67-68: if current_retry_delay >= 2: current_retry_delay //= 2
SuccessDelay(d) == IF d >= 2 THEN d \div 2 ELSE d

\* a retry that sends nothing
ResendNothing(n) == n

\* lines 52-56: each turn of the "while True" sends the request once more
Resend(n) == n + 1

\* giving up on a rate-limited response
AfterRateLimitGiveUp(p) == "aborted"

\* line 65: "continue", the same call stays in flight
AfterRateLimit(p) == p

(* ---- main: the two fatal tests ---- *)
\* an identity test that lets a missing user ID through
ResolvedAlways(uid) == TRUE

\* line 170: "if not my_user_id" is false
Resolved(uid) == uid # NoUser

\* leaving the enumeration loop with what was accumulated
AfterEnumFailGoesOn == "load"

\* line 186: "return" on a conversations.list page that is not ok
AfterEnumFail == "aborted"

(* ---- cache file ---- *)
\* a load that forgets the file
load_cache_empty(file) == {}

\* load_cache, lines 36-41, on a file json.load accepts
load_cache(file) == IF file.state = "absent" THEN {} ELSE file.ids

\* the IDs a reader of the file finds in it
Persisted(file) == file.ids

(* ---- purger predicates ---- *)
\* the filter without its subtype test
DeletableAnySubtype(msg, uid) == msg.user = uid

\* lines 138-147: a message reaches delete_message iff neither skip test fires
Deletable(msg, uid) == msg.user = uid /\ msg.subtype = NoSubtype

\* a loop that never sees the end of the pages
HasMoreAlways(c) == TRUE

\* line 161 / 192: "if not cursor: break"
HasMore(c) == c # NoCursor

\* caching whatever the pass deleted
ShouldCacheAlways(d) == d >= 0

\* line 220: "if deleted == 0"
ShouldCache(d) == d = 0

\* no filtering by the cache
RemainingUnfiltered(all, processed) == all

\* line 199: channels_to_process
Remaining(all, processed) == SelectSeq(all, LAMBDA c : c \notin processed)

VARIABLES
    pc,                   \* position of the process
    run,                  \* number of the process invocation
    current_retry_delay,  \* line 11, shared by all calls
    retries,              \* rate-limited responses received by the call in flight
    rl_used,              \* rate-limited responses the server gave in this run
    my_user_id,           \* main, line 169
    all_channels,         \* main, line 177 (the IDs of the records)
    cursor,               \* the loop's cursor (main line 178, purger line 116)
    result,               \* the last list response: ok, empty page, next cursor
    processed_ids,        \* main, line 198
    channels_to_process,  \* main, line 199
    i,                    \* position in channels_to_process (1-based)
    deleted, skipped,     \* purger counters, lines 114-115
    total_deleted, total_skipped,   \* main, lines 203-204
    messages,             \* messages of the current page not yet handled
    fetched,              \* messages the current pass has been sent so far
    cache_file,           \* content of processed_conversations.json
    foreignOnly,          \* server: the conversations that hold no message of Me
    loaded,               \* history: the set load_cache returned in this run
    histReqs,             \* history: channels sent a conversations.history request
    delReqs,              \* history: (channel, message) sent a chat.delete request
    deletedIn,            \* history: channels where a delete returned ok
    cleanPasses,          \* history: channels whose pass returned deleted == 0
    killedAt,             \* history: position at which the run was killed
    runStartFile,         \* history: IDs in the file when the run started
    prevDone,             \* history: foreign-only IDs the previous run enumerated, if it completed
    sent,                 \* history: requests the call in flight has sent (0: no call in flight)
    methods,              \* history: the API methods requested in this run
    tally,                \* history: the current pass's successful deletes, messages to skip, other failures
    by                    \* history: per conversation, the deletions and skips of this run

vars == <<pc, run, current_retry_delay, retries, rl_used, my_user_id, all_channels,
          cursor, result, processed_ids, channels_to_process, i, deleted, skipped,
          total_deleted, total_skipped, messages, fetched, cache_file, foreignOnly,
          loaded, histReqs, delReqs, deletedIn, cleanPasses, killedAt,
          runStartFile, prevDone, sent, methods, tally, by>>

\* the locals of main and of delete_messages_in_channel
locals == <<my_user_id, all_channels, cursor, result, processed_ids,
            channels_to_process, i, deleted, skipped, total_deleted,
            total_skipped, messages, fetched>>

history == <<loaded, histReqs, delReqs, deletedIn, cleanPasses>>

\* the record of the requests and of the outcomes, all of it left alone
audit == <<sent, methods, tally, by>>

NoTally == [ok |-> 0, skip |-> 0, other |-> 0]
NoneBy == [c \in Channels |-> [ok |-> 0, skip |-> 0]]

\* one more message of conversation c counted under kind k ("ok" or "skip")
Count(b, c, k) == [b EXCEPT ![c][k] = @ + 1]

fixed == <<run, foreignOnly, killedAt, runStartFile, prevDone>>

CallPcs == {"auth", "enum", "hist", "del"}
LivePcs == CallPcs \cup {"load", "loop", "page", "ret", "saving"}
StoppedPcs == {"done", "aborted", "killed", "crashed"}

NoResult == [ok |-> FALSE, empty |-> TRUE, next_cursor |-> NoCursor]

\* walking the remaining conversations from the last one to the first
channel_id_backwards ==
    IF i \in DOMAIN channels_to_process
    THEN channels_to_process[Len(channels_to_process) - i + 1] ELSE NoChannel

channel_id == IF i \in DOMAIN channels_to_process THEN channels_to_process[i] ELSE NoChannel

\* the memory of a process that has not run yet: line 11 and the entry of main
FreshMemory ==
    /\ current_retry_delay' = INITIAL_RETRY_DELAY
    /\ retries' = 0
    /\ rl_used' = 0
    /\ my_user_id' = NoUser
    /\ all_channels' = <<>>
    /\ cursor' = NoCursor
    /\ result' = NoResult
    /\ processed_ids' = {}
    /\ channels_to_process' = <<>>
    /\ i' = 1
    /\ deleted' = 0 /\ skipped' = 0
    /\ total_deleted' = 0 /\ total_skipped' = 0
    /\ messages' = <<>>
    /\ fetched' = 0

Init ==
    /\ pc = "auth"
    /\ run = 1
    /\ current_retry_delay = INITIAL_RETRY_DELAY
    /\ retries = 0
    /\ rl_used = 0
    /\ my_user_id = NoUser
    /\ all_channels = <<>>
    /\ cursor = NoCursor
    /\ result = NoResult
    /\ processed_ids = {}
    /\ channels_to_process = <<>>
    /\ i = 1
    /\ deleted = 0 /\ skipped = 0
    /\ total_deleted = 0 /\ total_skipped = 0
    /\ messages = <<>>
    /\ fetched = 0
    /\ cache_file \in {NoFile} \cup {FileOf(S) : S \in SUBSET Channels}
    /\ foreignOnly \in {{}, {"C1"}}
    /\ loaded = {}
    /\ histReqs = {} /\ delReqs = {} /\ deletedIn = {} /\ cleanPasses = {}
    /\ killedAt = "none"
    /\ runStartFile = Persisted(cache_file)
    /\ prevDone = {}
    /\ sent = 1
    /\ methods = {"auth.test"}
    /\ tally = NoTally
    /\ by = NoneBy

(* ---- slack_api_call, lines 48-69 ---- *)
\* a response with error == "ratelimited": double, sleep, retry the same request
RateLimitedUpTo(n) ==
    /\ pc \in CallPcs
    /\ rl_used < n
    /\ current_retry_delay' = RateLimitDelay(current_retry_delay)
    /\ retries' = retries + 1
    /\ rl_used' = rl_used + 1
    /\ pc' = AfterRateLimit(pc)
    /\ sent' = Resend(sent)
    /\ UNCHANGED <<locals, cache_file, history, fixed, methods, tally, by>>

RateLimited == RateLimitedUpTo(MaxRateLimited)

\* any other response: halve and return it; the caller then issues its next call
Returned ==
    /\ current_retry_delay' = SuccessDelay(current_retry_delay)
    /\ retries' = 0
    /\ UNCHANGED rl_used

(* ---- get_my_user_id and main, lines 73-78 and 169-174 ---- *)
AuthResp ==
    /\ pc = "auth"
    /\ Returned
    /\ \E ok \in BOOLEAN, uid \in {Me, NoUser} :
         /\ my_user_id' = IF ok THEN uid ELSE NoUser
         /\ pc' = IF Resolved(my_user_id') THEN "enum" ELSE "aborted"
         /\ sent' = IF Resolved(my_user_id') THEN 1 ELSE 0
         /\ methods' = IF Resolved(my_user_id')
                         THEN methods \cup {"conversations.list"} ELSE methods
    /\ UNCHANGED <<all_channels, cursor, result, processed_ids, channels_to_process,
                   i, deleted, skipped, total_deleted, total_skipped, messages,
                   fetched, cache_file, history, fixed, tally, by>>

(* ---- enumeration loop of main, lines 181-193 ---- *)
EnumFail ==
    /\ pc = "enum"
    /\ Returned
    /\ result' = [ok |-> FALSE, empty |-> TRUE, next_cursor |-> NoCursor]
    /\ pc' = AfterEnumFail
    /\ sent' = 0
    /\ UNCHANGED <<my_user_id, all_channels, cursor, processed_ids,
                   channels_to_process, i, deleted, skipped, total_deleted,
                   total_skipped, messages, fetched, cache_file, history, fixed,
                   methods, tally, by>>

EnumPage ==
    /\ pc = "enum"
    /\ Returned
    /\ \E page \in SeqsUpTo(Channels, MaxListed - Len(all_channels)),
          next \in Cursors \cup {NoCursor} :
         /\ result' = [ok |-> TRUE, empty |-> page = <<>>, next_cursor |-> next]
         /\ all_channels' = all_channels \o page
         /\ cursor' = next
         /\ pc' = IF HasMore(next) THEN "enum" ELSE "load"
         /\ sent' = IF HasMore(next) THEN 1 ELSE 0
    /\ UNCHANGED <<my_user_id, processed_ids, channels_to_process, i, deleted,
                   skipped, total_deleted, total_skipped, messages, fetched,
                   cache_file, history, fixed, methods, tally, by>>

(* ---- main, lines 198-204 ---- *)
\* json.load raises on a file that holds no complete JSON document
LoadCrash ==
    /\ pc = "load"
    /\ cache_file = Truncated
    /\ pc' = "crashed"
    /\ UNCHANGED <<current_retry_delay, retries, rl_used, locals, cache_file,
                   history, fixed, audit>>

Load ==
    /\ pc = "load"
    /\ cache_file # Truncated
    /\ processed_ids' = load_cache(cache_file)
    /\ loaded' = load_cache(cache_file)
    /\ channels_to_process' = Remaining(all_channels, load_cache(cache_file))
    /\ i' = 1
    /\ total_deleted' = 0 /\ total_skipped' = 0
    /\ pc' = "loop"
    /\ UNCHANGED <<current_retry_delay, retries, rl_used, my_user_id, all_channels,
                   cursor, result, deleted, skipped, messages, fetched, cache_file,
                   histReqs, delReqs, deletedIn, cleanPasses, fixed, audit>>

(* ---- main, lines 206-212 and 226 ---- *)
Finish ==
    /\ pc = "loop"
    /\ i > Len(channels_to_process)
    /\ pc' = "done"
    /\ UNCHANGED <<current_retry_delay, retries, rl_used, locals, cache_file,
                   history, fixed, audit>>

\* entry of delete_messages_in_channel up to its first get_messages
BeginPass ==
    /\ pc = "loop"
    /\ i <= Len(channels_to_process)
    /\ deleted' = 0 /\ skipped' = 0
    /\ cursor' = NoCursor
    /\ fetched' = 0
    /\ histReqs' = histReqs \cup {channel_id}
    /\ methods' = methods \cup {"conversations.history"}
    /\ sent' = 1
    /\ tally' = NoTally
    /\ pc' = "hist"
    /\ UNCHANGED <<current_retry_delay, retries, rl_used, my_user_id, all_channels,
                   result, processed_ids, channels_to_process, i, total_deleted,
                   total_skipped, messages, cache_file, loaded, delReqs, deletedIn,
                   cleanPasses, fixed, by>>

(* ---- delete_messages_in_channel, lines 118-165 ---- *)
HistFail ==
    /\ pc = "hist"
    /\ Returned
    /\ result' = [ok |-> FALSE, empty |-> TRUE, next_cursor |-> NoCursor]
    /\ pc' = "ret"
    /\ sent' = 0
    /\ UNCHANGED <<my_user_id, all_channels, cursor, processed_ids,
                   channels_to_process, i, deleted, skipped, total_deleted,
                   total_skipped, messages, fetched, cache_file, history, fixed,
                   methods, tally, by>>

\* counting every rejected delete as a skip
CantDeleteOrOther(error) == error # "ok"

\* line 153: the error of a rejected delete is "cant_delete_message"
CantDelete(error) == error = "cant_delete_message"

\* the messages of a page that are another user's or carry a subtype
ForeignOrSystem(page, uid) ==
    Cardinality({k \in DOMAIN page :
                    page[k].user # uid \/ page[k].subtype # NoSubtype})

\* the pages the server can return for a conversation
PagesOf(c, maxlen) ==
    {p \in SeqsUpTo(Msgs, maxlen) :
        c \in foreignOnly => \A k \in DOMAIN p : p[k].user # Me}

HistPage ==
    /\ pc = "hist"
    /\ Returned
    /\ \E page \in PagesOf(channel_id, MaxMsgs - fetched),
          next \in Cursors \cup {NoCursor} :
         /\ result' = [ok |-> TRUE, empty |-> page = <<>>, next_cursor |-> next]
         /\ messages' = page
         /\ fetched' = fetched + Len(page)
         /\ pc' = IF page = <<>> THEN "ret" ELSE "page"
         /\ tally' = [tally EXCEPT !.skip = @ + ForeignOrSystem(page, my_user_id)]
    /\ sent' = 0
    /\ UNCHANGED <<my_user_id, all_channels, cursor, processed_ids,
                   channels_to_process, i, deleted, skipped, total_deleted,
                   total_skipped, cache_file, history, fixed, methods, by>>

\* lines 138-145: a foreign or system message
SkipMsg ==
    /\ pc = "page"
    /\ messages # <<>>
    /\ ~Deletable(Head(messages), my_user_id)
    /\ skipped' = skipped + 1
    /\ messages' = Tail(messages)
    /\ by' = Count(by, channel_id, "skip")
    /\ UNCHANGED <<pc, current_retry_delay, retries, rl_used, my_user_id,
                   all_channels, cursor, result, processed_ids, channels_to_process,
                   i, deleted, total_deleted, total_skipped, fetched, cache_file,
                   history, fixed, sent, methods, tally>>

\* line 147: the chat.delete request goes out
SendDelete ==
    /\ pc = "page"
    /\ messages # <<>>
    /\ Deletable(Head(messages), my_user_id)
    /\ delReqs' = delReqs \cup {<<channel_id, Head(messages)>>}
    /\ pc' = "del"
    /\ sent' = 1
    /\ methods' = methods \cup {"chat.delete"}
    /\ UNCHANGED <<current_retry_delay, retries, rl_used, locals, cache_file, loaded,
                   histReqs, deletedIn, cleanPasses, fixed, tally, by>>

\* lines 149-157
DeleteResp ==
    /\ pc = "del"
    /\ Returned
    /\ \E outcome \in {"ok", "cant_delete_message", "other"} :
         /\ deleted' = IF outcome = "ok" THEN deleted + 1 ELSE deleted
         /\ skipped' = IF outcome # "ok" /\ CantDelete(outcome)
                          THEN skipped + 1 ELSE skipped
         /\ deletedIn' = IF outcome = "ok" THEN deletedIn \cup {channel_id} ELSE deletedIn
         /\ tally' = CASE outcome = "ok" -> [tally EXCEPT !.ok = @ + 1]
                        [] outcome = "cant_delete_message" -> [tally EXCEPT !.skip = @ + 1]
                        [] OTHER -> [tally EXCEPT !.other = @ + 1]
         /\ by' = CASE outcome = "ok" -> Count(by, channel_id, "ok")
                     [] outcome = "cant_delete_message" -> Count(by, channel_id, "skip")
                     [] OTHER -> by
    /\ messages' = Tail(messages)
    /\ pc' = "page"
    /\ sent' = 0
    /\ UNCHANGED <<my_user_id, all_channels, cursor, result, processed_ids,
                   channels_to_process, i, total_deleted, total_skipped, fetched,
                   cache_file, loaded, histReqs, delReqs, cleanPasses, fixed,
                   methods>>

\* lines 160-163: the page is exhausted
PageEnd ==
    /\ pc = "page"
    /\ messages = <<>>
    /\ cursor' = result.next_cursor
    /\ pc' = IF HasMore(result.next_cursor) THEN "hist" ELSE "ret"
    /\ sent' = IF HasMore(result.next_cursor) THEN 1 ELSE 0
    /\ UNCHANGED <<current_retry_delay, retries, rl_used, my_user_id, all_channels,
                   result, processed_ids, channels_to_process, i, deleted, skipped,
                   total_deleted, total_skipped, messages, fetched, cache_file,
                   history, fixed, methods, tally, by>>

(* ---- main, lines 212-224 ---- *)
\* delete_messages_in_channel returns (line 165): its locals are gone
\* overwriting the run total with the count of the last pass
AddToKeepsLast(total, n) == n

\* lines 213-214: "total_deleted += deleted", "total_skipped += skipped"
AddTo(total, n) == total + n

PurgerReturns ==
    /\ deleted' = 0 /\ skipped' = 0
    /\ cursor' = NoCursor
    /\ result' = NoResult
    /\ messages' = <<>>
    /\ fetched' = 0

\* the pass returned with deleted > 0: nothing is cached
PassDirty ==
    /\ pc = "ret"
    /\ ~ShouldCache(deleted)
    /\ total_deleted' = AddTo(total_deleted, deleted)
    /\ total_skipped' = AddTo(total_skipped, skipped)
    /\ PurgerReturns
    /\ i' = i + 1
    /\ pc' = "loop"
    /\ tally' = NoTally
    /\ UNCHANGED <<current_retry_delay, retries, rl_used, my_user_id, all_channels,
                   processed_ids, channels_to_process, cache_file, history, fixed,
                   sent, methods, by>>

\* the pass returned with deleted == 0: add the ID and enter save_cache, whose
\* open(CACHE_FILE, "w") (line 45) empties the file before anything is written
PassClean ==
    /\ pc = "ret"
    /\ ShouldCache(deleted)
    /\ total_deleted' = AddTo(total_deleted, deleted)
    /\ total_skipped' = AddTo(total_skipped, skipped)
    /\ PurgerReturns
    /\ processed_ids' = processed_ids \cup {channel_id}
    /\ cleanPasses' = cleanPasses \cup {channel_id}
    /\ cache_file' = Truncated
    /\ pc' = "saving"
    /\ tally' = NoTally
    /\ UNCHANGED <<current_retry_delay, retries, rl_used, my_user_id, all_channels,
                   channels_to_process, i, loaded, histReqs, delReqs, deletedIn,
                   fixed, sent, methods, by>>

\* save_cache, line 46 and the close of the file: the list reaches the file
SaveWrite ==
    /\ pc = "saving"
    /\ cache_file' = FileOf(processed_ids)
    /\ i' = i + 1
    /\ pc' = "loop"
    /\ UNCHANGED <<current_retry_delay, retries, rl_used, my_user_id, all_channels,
                   cursor, result, processed_ids, channels_to_process, deleted,
                   skipped, total_deleted, total_skipped, messages, fetched, history,
                   fixed, audit>>

(* ---- the environment of the process ---- *)
\* external termination: the memory of the process is gone, the file stays as it is
Kill ==
    /\ pc \in LivePcs
    /\ pc' = "killed"
    /\ killedAt' = pc
    /\ FreshMemory
    /\ histReqs' = {} /\ delReqs' = {} /\ deletedIn' = {}
    /\ sent' = 0 /\ methods' = {} /\ tally' = NoTally /\ by' = NoneBy
    /\ UNCHANGED <<cache_file, loaded, cleanPasses, run, foreignOnly, runStartFile,
                   prevDone>>

\* the user starts the script again
Restart ==
    /\ pc \in StoppedPcs
    /\ run < MaxRuns
    /\ run' = run + 1
    /\ pc' = "auth"
    /\ FreshMemory
    /\ loaded' = {}
    /\ histReqs' = {} /\ delReqs' = {} /\ deletedIn' = {} /\ cleanPasses' = {}
    /\ killedAt' = "none"
    /\ runStartFile' = Persisted(cache_file)
    /\ prevDone' = IF pc = "done" THEN Range(all_channels) \cap foreignOnly ELSE {}
    /\ sent' = 1 /\ methods' = {"auth.test"} /\ tally' = NoTally /\ by' = NoneBy
    /\ UNCHANGED <<cache_file, foreignOnly>>

Next ==
    \/ RateLimited
    \/ AuthResp
    \/ EnumFail
    \/ EnumPage
    \/ LoadCrash
    \/ Load
    \/ Finish
    \/ BeginPass
    \/ HistFail
    \/ HistPage
    \/ SkipMsg
    \/ SendDelete
    \/ DeleteResp
    \/ PageEnd
    \/ PassDirty
    \/ PassClean
    \/ SaveWrite
    \/ Kill
    \/ Restart

Spec == Init /\ [][Next]_vars

(***************************************************************************)
(* slack_api_call alone: a workspace with no conversation, so that a run   *)
(* is auth.test, then conversations.list pages that are all empty, and the *)
(* server may answer "ratelimited" often enough for the delay to reach     *)
(* MAX_RETRY_DELAY.                                                        *)
(***************************************************************************)
EnumEmpty == EnumPage /\ all_channels' = <<>>

NextCaller ==
    \/ RateLimitedUpTo(MaxBackoff)
    \/ AuthResp
    \/ EnumFail
    \/ EnumEmpty
    \/ Load
    \/ Finish

SpecCaller == Init /\ [][NextCaller]_vars

\* the server does answer the request in flight with something other than
\* "ratelimited" in the end, and slack_api_call, blocked in requests.get or
\* requests.post (lines 53-56), takes the answer when it comes
FairCaller == SpecCaller /\ WF_vars(AuthResp \/ EnumFail \/ EnumEmpty)

(***************************************************************************)
(* Properties                                                              *)
(***************************************************************************)
Max(a, b) == IF a > b THEN a ELSE b

RECURSIVE Pow2(_)
Pow2(n) == IF n = 0 THEN 1 ELSE 2 * Pow2(n - 1)

\* the step in which the call in flight at position p returns a response that is
\* not rate-limited (a rate-limited one raises retries, a kill moves pc to "killed")
RespondedAt(p) == pc = p /\ pc' # "killed" /\ retries' = 0

ResponseStep == \E p \in CallPcs : RespondedAt(p)

\* C1: in every reachable state the shared Retry Delay lies between
\* INITIAL_RETRY_DELAY (2) and MAX_RETRY_DELAY (300).
C1_DelayWithinInitialAndMax ==
    /\ INITIAL_RETRY_DELAY <= current_retry_delay
    /\ current_retry_delay <= MAX_RETRY_DELAY

\* C2: in a fresh run the first call (auth.test, entered with the delay at its
\* initial value) sleeps min(INITIAL_RETRY_DELAY * 2^k, MAX_RETRY_DELAY) after its
\* (k+1)-th consecutive rate-limited response; the delay slept is the value of
\* current_retry_delay right after the response.
C2_BackoffSchedule ==
    (pc = "auth" /\ retries > 0) =>
        current_retry_delay =
            Min(INITIAL_RETRY_DELAY * Pow2(retries - 1), MAX_RETRY_DELAY)

\* C3: every response that is not rate-limited floor-halves the delay but never
\* takes it below INITIAL_RETRY_DELAY; at the initial value it leaves it unchanged.
C3_RecoveryFloor ==
    [][(ResponseStep /\ current_retry_delay >= INITIAL_RETRY_DELAY) =>
          current_retry_delay' =
              Max(current_retry_delay \div 2, INITIAL_RETRY_DELAY)]_vars

\* the message the purger is looking at is the Identity's and has no subtype
HeadIsOwnPlain ==
    /\ messages # <<>>
    /\ Head(messages).user = my_user_id
    /\ Head(messages).subtype = NoSubtype

\* C4: a delete request is issued for a message only if its user equals the
\* resolved Identity and its subtype is empty; every other message raises skipped
\* by exactly one and causes no delete request.
C4_OwnershipFilter ==
    [][/\ (pc = "page" /\ messages # <<>> /\ ~HeadIsOwnPlain /\ pc' # "killed") =>
            /\ skipped' = skipped + 1
            /\ deleted' = deleted
            /\ delReqs' = delReqs
            /\ pc' = "page"
            /\ messages' = Tail(messages)
       /\ (delReqs' # delReqs /\ delReqs' # {}) =>
            /\ pc = "page"
            /\ HeadIsOwnPlain
            /\ my_user_id # NoUser
            /\ delReqs' = delReqs \cup {<<channel_id, Head(messages)>>}
            /\ skipped' = skipped]_vars

\* C4 witness: one pass has sent a delete request and a later pass has skipped a message
C4_Witness == pc = "ret" /\ skipped = 1 /\ deleted = 0 /\ delReqs # {}

\* C5: the step in which main receives the result of a pass adds the conversation
\* ID to the Completion Set and enters save_cache if and only if deleted == 0, and
\* the save then writes the whole set; when deleted > 0 neither the set nor the
\* file changes; nothing else adds an ID or writes the file during a run.
C5_CacheCorrectness ==
    [][/\ (pc = "ret" /\ pc' # "killed") =>
            IF deleted = 0
            THEN /\ processed_ids' = processed_ids \cup {channel_id}
                 /\ pc' = "saving"
            ELSE /\ processed_ids' = processed_ids
                 /\ cache_file' = cache_file
                 /\ pc' = "loop"
       /\ (pc = "saving" /\ pc' # "killed") =>
            /\ cache_file' = FileOf(processed_ids)
            /\ channel_id \in Persisted(cache_file')
            /\ processed_ids' = processed_ids
       /\ (pc \in LivePcs \ {"load", "ret"} /\ pc' # "killed") =>
            processed_ids' = processed_ids
       /\ cache_file' # cache_file => pc \in {"ret", "saving"}]_vars

\* C5 witness: a completed run that cached one conversation and left out another,
\* in which it had deleted a message
C5_Witness ==
    /\ pc = "done"
    /\ cleanPasses # {}
    /\ cleanPasses \subseteq Persisted(cache_file)
    /\ deletedIn \ Persisted(cache_file) # {}

\* the response just received ends a paginated loop for one of the listed reasons
ListedStop ==
    \/ ~result'.ok
    \/ result'.empty
    \/ result'.next_cursor = NoCursor

\* the response just received hands back the cursor the request was sent with
SameCursorAgain == cursor # NoCursor /\ result'.next_cursor = cursor

\* C6: both loops leave when the server returns no next cursor, an empty page or
\* ok=false, and neither goes on requesting when the server returns the cursor
\* the request was sent with.
C6_LoopsStopAsListed ==
    [][/\ (RespondedAt("enum") /\ (ListedStop \/ SameCursorAgain)) => pc' # "enum"
       /\ (RespondedAt("hist") /\ (~result'.ok \/ result'.empty)) => pc' = "ret"
       /\ (pc = "page" /\ messages = <<>> /\ pc' # "killed"
             /\ (result.next_cursor = NoCursor \/ result.next_cursor = cursor)) =>
            pc' = "ret"]_vars

\* C6 as amended: the purge loop leaves exactly when the server returns ok=false,
\* an empty page or, after the messages of a page are handled, no next cursor; the
\* enumeration loop leaves exactly when the server returns ok=false or no next
\* cursor (an empty page that carries a cursor does not end it); otherwise the
\* loop sends the next request with the cursor it was given, repeated or not.
C6_LoopsStopOnlyOnEndOfPages ==
    [][/\ RespondedAt("enum") =>
            /\ (~result'.ok) => pc' = "aborted"
            /\ (result'.ok /\ result'.next_cursor = NoCursor) => pc' = "load"
            /\ (result'.ok /\ result'.next_cursor # NoCursor) =>
                   (pc' = "enum" /\ cursor' = result'.next_cursor)
       /\ RespondedAt("hist") =>
            /\ (~result'.ok \/ result'.empty) => pc' = "ret"
            /\ (result'.ok /\ ~result'.empty) => pc' = "page"
       /\ (pc = "page" /\ messages = <<>> /\ pc' # "killed") =>
            /\ result.next_cursor = NoCursor => pc' = "ret"
            /\ result.next_cursor # NoCursor =>
                   (pc' = "hist" /\ cursor' = result.next_cursor)]_vars

\* C6 witness: a purge pass that went on with a cursor, was handed the same cursor
\* again on an empty page, and has left its loop
C6_Witness ==
    /\ pc = "ret"
    /\ cursor # NoCursor
    /\ result.ok /\ result.empty
    /\ result.next_cursor = cursor

\* C7: no conversations.history and no chat.delete request goes to a conversation
\* whose ID was in the Completion Set loaded at startup, and a completed run has
\* sent a history request to exactly the enumerated conversations outside that set.
C7_CacheFilter ==
    /\ histReqs \cap loaded = {}
    /\ \A r \in delReqs : r[1] \notin loaded /\ r[1] \in histReqs
    /\ histReqs \subseteq Range(all_channels)
    /\ pc = "done" => histReqs = Range(all_channels) \ loaded

\* C7 witness: a completed run that enumerated a cached conversation and purged another
C7_Witness ==
    /\ pc = "done"
    /\ loaded \cap Range(all_channels) # {}
    /\ histReqs # {}

\* C8: a conversation without messages of the Identity has no deletion in a
\* completed run and is in the written cache file at its end; the run that follows
\* a completed run sends it no history request and deletes nothing in it.
C8_IdempotentAcrossRuns ==
    /\ pc = "done" =>
          \A c \in Range(all_channels) \cap foreignOnly :
              /\ c \notin deletedIn
              /\ cache_file.state = "written"
              /\ c \in Persisted(cache_file)
    /\ \A c \in prevDone :
          /\ c \notin histReqs
          /\ c \notin deletedIn
          /\ pc = "done" => c \in Persisted(cache_file)

\* C8 witness: the second of two completed runs, which enumerated the conversation
\* the first one had found clean
C8_Witness ==
    /\ run = 2
    /\ pc = "done"
    /\ prevDone # {}
    /\ prevDone \subseteq Range(all_channels)
    /\ prevDone \cap runStartFile # {}

\* the run is past load_cache
PastLoad == {"loop", "hist", "page", "del", "ret", "saving"}

\* C9: when a run is killed after the cache was loaded, the cache file holds the
\* loaded set plus exactly the IDs of the conversations whose pass had completed
\* with zero deletions.
C9_KilledFileIsLoadedPlusClean ==
    (pc = "killed" /\ killedAt \in PastLoad) =>
        /\ cache_file.state # "truncated"
        /\ Persisted(cache_file) = loaded \cup cleanPasses

\* C10: the persisted Completion Set only grows: when a run has stopped, however
\* it stopped, the file holds every ID it held when the run started.
C10_PersistedOnlyGrows ==
    pc \in StoppedPcs => runStartFile \subseteq Persisted(cache_file)

(* ---- C11 ---- *)
\* the step of line 221 that adds the conversation of the returned pass
AddsToCompletionSet == pc = "ret" /\ processed_ids' # processed_ids

\* C11: whenever a conversation ID is added to the Completion Set, the pass
\* over it did not end on a page-fetch failure and left no own message with
\* empty subtype whose delete was rejected for a reason other than
\* cant_delete_message.
C11_AddedOnlyAfterCleanPass ==
    [][AddsToCompletionSet => result.ok /\ tally.other = 0]_vars

(* ---- C12 ---- *)
\* the server answers the request in flight with "ratelimited"
AnsweredRateLimited == pc \in CallPcs /\ rl_used' = rl_used + 1

\* the server answers the request in flight with anything else
AnsweredOtherwise == pc \in CallPcs /\ pc' # "killed" /\ rl_used' = rl_used

\* C12: slack_api_call returns at the first response whose error is not
\* "ratelimited", ok or not, without sending a further request; the requests
\* it has sent number the rate-limited responses it received plus one.
C12_ReturnsAtFirstOtherResponse ==
    [][ /\ pc \in CallPcs => sent = retries + 1
        /\ AnsweredOtherwise =>
              /\ retries' = 0
              /\ sent' \in {0, 1}
              /\ current_retry_delay' = SuccessDelay(current_retry_delay)
        /\ AnsweredOtherwise /\ pc \in {"enum", "hist"} /\ ~result'.ok =>
              pc' \notin CallPcs /\ sent' = 0 ]_vars

\* a page fetch that has been answered "ratelimited" and sent a second time
C12_Witness == pc = "hist" /\ retries > 0 /\ sent = retries + 1

(* ---- C13 ---- *)
\* C13: a "ratelimited" answer never ends the call: the same request (method,
\* target, parameters) is sent once more, whatever the number of retries so
\* far; and once the server gives another answer, the call returns.
C13_RetriesUntilAnswered ==
    /\ [][AnsweredRateLimited =>
             /\ pc' = pc
             /\ retries' = retries + 1
             /\ sent' = sent + 1
             /\ UNCHANGED locals]_vars
    /\ (pc \in CallPcs /\ retries > 0) ~> (retries = 0)

\* a conversations.list request still in flight after MaxBackoff rate-limited
\* answers in a row
C13_Witness == pc = "enum" /\ retries = MaxBackoff /\ sent = MaxBackoff + 1

(* ---- C14 ---- *)
\* the run stopped on a conversations.list page that was not ok
EnumerationFailed == pc = "aborted" /\ Resolved(my_user_id)

\* C14: a conversations.list page with ok=false ends the run at once, whatever
\* earlier pages accumulated; up to and after that point the run sends no
\* list-messages and no delete-message request, loads no cache, writes no
\* cache and selects no conversation for purging.
C14_EnumerationFailureIsFatal ==
    [][ /\ pc = "enum" /\ AnsweredOtherwise /\ ~result'.ok =>
              pc' = "aborted" /\ UNCHANGED all_channels
        /\ pc' = "aborted" /\ Resolved(my_user_id') => pc = "enum" /\ ~result'.ok
        /\ pc = "enum" \/ EnumerationFailed =>
              /\ UNCHANGED cache_file
              /\ histReqs' = {} /\ delReqs' = {}
              /\ loaded' = {} /\ processed_ids' = {}
              /\ channels_to_process' = <<>>
              /\ methods' \subseteq {"auth.test", "conversations.list"}
        /\ EnumerationFailed => pc' = "auth" /\ run' = run + 1 ]_vars

\* the second page failed after the first one had listed conversations
C14_Witness ==
    /\ EnumerationFailed
    /\ all_channels # <<>>
    /\ histReqs = {} /\ delReqs = {}
    /\ Persisted(cache_file) = runStartFile

(* ---- C15 ---- *)
\* C15: while the Identity is unresolved (auth.test not yet answered, answered
\* with ok=false, or answered without a user ID) the run is either still in
\* identity resolution or over; it has requested nothing but auth.test, so no
\* list-conversations, list-messages or delete-message request, and it has
\* not written the cache.
C15_IdentityFailureIsFatal ==
    my_user_id = NoUser /\ pc # "killed" =>
        /\ pc \in {"auth", "aborted"}
        /\ methods = {"auth.test"}
        /\ histReqs = {} /\ delReqs = {}
        /\ Persisted(cache_file) = runStartFile
        /\ loaded = {} /\ cleanPasses = {}

\* the run ended on failed identity resolution
C15_Witness == pc = "aborted" /\ my_user_id = NoUser /\ methods = {"auth.test"}

(* ---- C16 ---- *)
\* C16: once identity resolution and enumeration have succeeded, a run that is
\* not killed stops only by printing the final summary, after every
\* conversation that was not in the cache has received a list-messages request,
\* whatever page fetches and deletes failed on the way.
C16_RunStopsOnlyAtSummary ==
    pc \in StoppedPcs \ {"killed", "aborted"} =>
        /\ pc = "done"
        /\ Range(all_channels) \ loaded \subseteq histReqs

(* ---- C17 ---- *)
\* C17: when a purge pass returns, deleted is the number of delete requests
\* answered ok, skipped is the number of fetched messages that were foreign or
\* carried a subtype plus the number of deletes rejected with
\* cant_delete_message, deletes that failed otherwise are in neither count, and
\* the three together account for every message of every page fetched, also
\* when the pass ended on a page-fetch failure.
C17_PassAccounting ==
    pc = "ret" =>
        /\ messages = <<>>
        /\ deleted = tally.ok
        /\ skipped = tally.skip
        /\ deleted + skipped + tally.other = fetched

\* a pass returns with a delete that failed for another reason in neither count
C17_Witness ==
    /\ pc = "ret"
    /\ tally.other > 0
    /\ deleted + skipped < fetched

(* ---- C18 ---- *)
\* the messages counted under kind k in this run, over the conversations of S
RECURSIVE SumBy(_, _)
SumBy(S, k) ==
    IF S = {} THEN 0
    ELSE LET c == CHOOSE x \in S : TRUE IN by[c][k] + SumBy(S \ {c}, k)

\* the conversations this run purged
Purged == Range(all_channels) \ loaded

\* C18: the Deleted and Skipped numbers of the final summary are the sums, over
\* the enumerated conversations that were not in the loaded Completion Set, of
\* the messages deleted and skipped in them; no other conversation contributes.
C18_RunTotals ==
    pc = "done" =>
        /\ total_deleted = SumBy(Purged, "ok")
        /\ total_skipped = SumBy(Purged, "skip")
        /\ \A c \in Channels \ Purged : by[c] = [ok |-> 0, skip |-> 0]

\* a summary whose totals come from two purged conversations
C18_Witness ==
    /\ pc = "done"
    /\ total_deleted + total_skipped > 1
    /\ \A c \in Purged : by[c].ok + by[c].skip > 0
    /\ Cardinality(Purged) > 1

(* ---- C19 ---- *)
\* the sequence seq without the members of S, in the order of seq
RECURSIVE Without(_, _)
Without(seq, S) ==
    IF seq = <<>> THEN <<>>
    ELSE (IF Head(seq) \in S THEN <<>> ELSE <<Head(seq)>>) \o Without(Tail(seq), S)

\* the first n of the conversations to process
Started(n) == {channels_to_process[k] : k \in (1..n) \cap DOMAIN channels_to_process}

\* C19: a run resolves the identity before it lists conversations, finishes the
\* enumeration before it loads the cache and loads the cache before any purge;
\* it purges the remaining conversations one at a time in enumeration order,
\* and while a request for a conversation may be sent, the pass over each
\* earlier one has returned and its cache update, if any, is in the file.
C19_Sequencing ==
    /\ "conversations.list" \in methods => my_user_id # NoUser
    /\ pc = "load" =>
          /\ result.ok /\ cursor = NoCursor
          /\ methods = {"auth.test", "conversations.list"}
          /\ loaded = {} /\ histReqs = {} /\ delReqs = {}
    /\ pc \in PastLoad => channels_to_process = Without(all_channels, loaded)
    /\ pc = "loop" => histReqs = Started(i - 1)
    /\ pc \in {"hist", "page", "del", "ret", "saving"} => histReqs = Started(i)
    /\ \A r \in delReqs : r[1] \in Started(i)
    /\ pc = "del" => <<channels_to_process[i], Head(messages)>> \in delReqs
    /\ pc \in {"loop", "hist", "page", "del", "ret"} =>
          /\ cache_file.state # "truncated"
          /\ cleanPasses \subseteq Persisted(cache_file)

\* the history of the second conversation is requested with the first
\* conversation's cache update in the file
C19_Witness ==
    /\ pc = "hist"
    /\ i = 2
    /\ Len(channels_to_process) = 2
    /\ channels_to_process[1] # channels_to_process[2]
    /\ cleanPasses = {channels_to_process[1]}
    /\ cache_file = FileOf(loaded \cup cleanPasses)

(* ---- C20 ---- *)
\* C20: after any sequence of API outcomes current_retry_delay is at least 1
\* and at most MAX_RETRY_DELAY, and the delay slept on a rate-limited response
\* (the value the retry has just set) is between 2 and MAX_RETRY_DELAY.
C20_DelayNeverZero ==
    /\ current_retry_delay \in 1..MAX_RETRY_DELAY
    /\ retries > 0 => current_retry_delay \in 2..MAX_RETRY_DELAY

\* the delay has been doubled up to the cap and is being slept
C20_Witness == retries > 0 /\ current_retry_delay = MAX_RETRY_DELAY

====
